---- MODULE Spec2Model ----
(***************************************************************************)
(* The resale-business scripts (create_resale_sheet, migrate_to_           *)
(* consolidated, remove_condition_column, add_inventory_filters,           *)
(* add_item_id_dropdown, create_inventory_form, add_essentials_hoodie)     *)
(* acting on one Google spreadsheet, together with the operator who adds   *)
(* inventory rows and records sales in it.                                 *)
(*                                                                         *)
(* A cell holds the text that was entered in it; a text that was entered   *)
(* USER_ENTERED and starts with "=" is a formula, and the value the sheet  *)
(* shows for it is computed by the operators ItemIdFormula, StatusFormula  *)
(* and QueryRows below.  Cell values are plain texts without COUNTIF /     *)
(* VLOOKUP wildcard characters.                                            *)
(***************************************************************************)
EXTENDS Integers, Sequences, FiniteSets, TLC

(***************************************************************************)
(* Bounds of the model.                                                    *)
(***************************************************************************)
MaxRow == 3
MaxSales == 2
MaxRuns == 2

DataRows == 2..MaxRow

(***************************************************************************)
(* Tab layouts written by the scripts.                                     *)
(***************************************************************************)
InventoryHeaders ==
  <<"Item ID", "UPC", "Category", "Brand", "Size", "Color",
    "Cost", "Date Purchased", "Status", "Location", "Notes">>

new_headers ==
  <<"Item ID", "UPC", "Category", "Brand", "Size", "Color",
    "Cost", "Date Purchased", "Condition", "Status", "Location", "Notes">>

SalesHeaders ==
  <<"Item ID", "Sale Price", "Date Sold", "Sold By", "Buyer",
    "Platform", "Shipping Status", "Tracking Number", "Notes">>

DashboardHeaders ==
  <<"Item ID", "Category", "Brand", "Size", "Color", "Buyer",
    "Platform", "Sale Price", "Shipping Status", "Tracking Number">>

\* The Inventory tab as the scripts written for the four-tab workbook see it:
\* nine columns A-I with Status in column H.  The other header texts of that
\* layout are not in the repository.
LegacyInventoryHeaders ==
  <<"Item ID", "Legacy B", "Legacy C", "Legacy D", "Legacy E",
    "Legacy F", "Legacy G", "Status", "Legacy I">>

\* Width of the modelled part of the Inventory grid: columns A-L.
W == Len(new_headers)

Blank(n) == [c \in 1..n |-> ""]

Pad(row, n) == [c \in 1..n |-> IF c <= Len(row) THEN row[c] ELSE ""]

\* values().update of `vals` into one row, starting at column `start` (1-based).
UpdateCells(row, start, vals) ==
  [c \in 1..Len(row) |->
     IF c >= start /\ c < start + Len(vals) THEN vals[c - start + 1] ELSE row[c]]

\* 1-based position of header `h` in `hdr`, 0 when it has none.
ColumnOf(hdr, h) ==
  IF \E c \in 1..Len(hdr) : hdr[c] = h
  THEN CHOOSE c \in 1..Len(hdr) : hdr[c] = h /\ \A d \in 1..(c - 1) : hdr[d] # h
  ELSE 0

(***************************************************************************)
(* The formulas the scripts install.                                       *)
(***************************************************************************)
formula_a2 ==
  "=IF(AND(C2<>\"\", D2<>\"\", E2<>\"\", F2<>\"\"), CONCATENATE(C2,\"-\",D2,\"-\",E2,\"-\",F2,\"-\",ROW()), \"\")"

formula_i2 ==
  "=IF(A2=\"\", \"\", IF(COUNTIF(Sales!$A:$A, A2) > 0, \"Sold\", \"In Stock\"))"

ColumnLetters == <<"A", "B", "C", "D", "E", "F", "G", "H", "I", "J", "K", "L">>

\* The dashboard QUERY formula whose VLOOKUPs search Inventory!A:<column n>.
\* create_resale_sheet and remove_condition_column write it with A:K,
\* migrate_to_consolidated with A:L.
query_formula(n) ==
  "=QUERY(ARRAYFORMULA(IF(Sales!A2:A<>\"\", {Sales!A2:A, "
  \o "IFERROR(VLOOKUP(Sales!A2:A, Inventory!A:" \o ColumnLetters[n] \o ", 3..6, FALSE), \"\"), "
  \o "Sales!E2:E, Sales!F2:F, Sales!B2:B, Sales!G2:G, Sales!H2:H}, )), "
  \o "\"WHERE Col1 IS NOT NULL\")"

\* The dashboard formula of the four-tab workbook, which looked items up in
\* the Purchases tab.
legacy_query_formula == "=QUERY(...Purchases!A:J...)"

VARIABLES
  sheets,         \* titles of the tabs of the spreadsheet
  invHeader,      \* Inventory row 1, columns A-L
  inv,            \* Inventory data rows: row number -> entered cells A-L
  salesHeader,    \* Sales row 1, columns A-I
  sales,          \* Sales data rows (row k of the sequence is sheet row k+1)
  purchases,      \* Purchases data rows A-J (row k is sheet row k+1)
  dashHeader,     \* Shipping Dashboard row 1, columns A-J
  dashFormula,    \* Shipping Dashboard!A2
  validations,    \* data-validation rules: [sheet, col, kind, strict]
  filterViews,    \* filter views: [id, sheet, title, endCol, critCol, hidden]
  script,         \* the script of the current (or last) run
  pc,             \* the statement the run is at
  trace,          \* API calls the run has issued, in order
  outcome,        \* how the run stands or ended
  answer,         \* what the operator typed at the confirmation prompt
  authed,         \* get_credentials has returned in this run
  printed,        \* messages the run has printed
  sheet_ids,      \* the run's sheet_ids dict (titles it knows)
  purchases_rows, \* the run's purchases_rows
  requests,       \* the run's deleteFilterView requests (filter ids)
  history,        \* ended runs: <<script, outcome>>
  token           \* token.json: the scopes the stored grant covers, {} = no file

ssVars == <<sheets, invHeader, inv, salesHeader, sales, purchases, dashHeader,
            dashFormula, validations, filterViews>>

runVars == <<script, pc, trace, outcome, answer, authed, printed, sheet_ids,
             purchases_rows, requests, history>>

vars == <<ssVars, runVars, token>>

(***************************************************************************)
(* What the sheet shows: evaluation of the installed formulas.             *)
(***************************************************************************)

\* formula_a2 in column A of row r: C, D, E, F of the same row and ROW().
ItemIdFormula(row, r) ==
  IF row[3] # "" /\ row[4] # "" /\ row[5] # "" /\ row[6] # ""
  THEN row[3] \o "-" \o row[4] \o "-" \o row[5] \o "-" \o row[6] \o "-" \o ToString(r)
  ELSE ""

\* COUNTIF(Sales!$A:$A, key): the cells of Sales column A, header included.
CountIfSalesA(hdr, rows, key) ==
  (IF hdr[1] = key THEN 1 ELSE 0)
  + Cardinality({k \in 1..Len(rows) : rows[k][1] = key})

\* The value shown in column A of a data row.
InvA(row, r) == IF row[1] = formula_a2 THEN ItemIdFormula(row, r) ELSE row[1]

\* formula_i2 / formula_j2 in a data row: A of the same row against Sales!A:A.
StatusFormula(row, r, hdr, rows) ==
  IF InvA(row, r) = "" THEN ""
  ELSE IF CountIfSalesA(hdr, rows, InvA(row, r)) > 0 THEN "Sold" ELSE "In Stock"

\* The value shown in cell (r, c) of the Inventory tab, r a data row.
InvValue(r, c) ==
  IF c = 1 THEN InvA(inv[r], r)
  ELSE IF inv[r][c] = formula_i2 THEN StatusFormula(inv[r], r, salesHeader, sales)
  ELSE inv[r][c]

\* The value shown in cell (r, c) of the Inventory tab, header row included.
InvShown(r, c) == IF r = 1 THEN invHeader[c] ELSE InvValue(r, c)

\* VLOOKUP(key, Inventory!A:<last>, index, FALSE) wrapped in IFERROR(.., ""):
\* the first row of the range, from row 1 down, whose column A shows `key`.
VLookupInventory(key, last, index) ==
  LET hits == {r \in 1..MaxRow : InvShown(r, 1) = key}
  IN  IF hits = {} \/ index > last THEN ""
      ELSE InvShown(CHOOSE r \in hits : \A q \in hits : r <= q, index)

\* An array literal with Sales!E and Sales!F in each other's place.
QueryRowBuyerPlatformSwapped(s, last) ==
  <<s[1],
    VLookupInventory(s[1], last, 3),
    VLookupInventory(s[1], last, 4),
    VLookupInventory(s[1], last, 5),
    VLookupInventory(s[1], last, 6),
    s[6], s[5], s[2], s[7], s[8]>>

\* One row of the array literal of query_formula, for one Sales row.
QueryRow(s, last) ==
  <<s[1],
    VLookupInventory(s[1], last, 3),
    VLookupInventory(s[1], last, 4),
    VLookupInventory(s[1], last, 5),
    VLookupInventory(s[1], last, 6),
    s[5], s[6], s[2], s[7], s[8]>>

RECURSIVE QueryRows(_, _)
QueryRows(rows, last) ==
  IF rows = <<>> THEN <<>>
  ELSE IF Head(rows)[1] # ""
       THEN <<QueryRow(Head(rows), last)>> \o QueryRows(Tail(rows), last)
       ELSE QueryRows(Tail(rows), last)

\* The rows the Shipping Dashboard shows below its header.
Dashboard ==
  IF \E n \in 1..W : dashFormula = query_formula(n)
  THEN QueryRows(sales, CHOOSE n \in 1..W : dashFormula = query_formula(n))
  ELSE <<>>

(***************************************************************************)
(* Data-validation rules and filter views.                                 *)
(***************************************************************************)
\* setDataValidation replaces the rule of the range it names.
SetDataValidation(vs, rule) ==
  {v \in vs : ~(v.sheet = rule.sheet /\ v.col = rule.col)} \cup {rule}

ListRule(sheet, col, kind) ==
  [sheet |-> sheet, col |-> col, kind |-> kind, strict |-> FALSE]

\* addFilterView: the server gives the view an id no other view has.
NewFilterId(fvs) ==
  CHOOSE n \in 1..(Cardinality(fvs) + 1) :
    /\ \A f \in fvs : f.id # n
    /\ \A m \in 1..(n - 1) : \E f \in fvs : f.id = m

AddFilterView(fvs, sheet, title, endCol, critCol, hidden) ==
  fvs \cup {[id |-> NewFilterId(fvs), sheet |-> sheet, title |-> title,
             endCol |-> endCol, critCol |-> critCol, hidden |-> hidden]}

\* The three Inventory views every script creates the same way up to the
\* column numbers: In Stock, Sold, All Statuses.
AddStatusViews(fvs, endCol, critCol) ==
  AddFilterView(
    AddFilterView(
      AddFilterView(fvs, "Inventory", "In Stock", endCol, critCol, {"Sold"}),
      "Inventory", "Sold", endCol, critCol, {"In Stock"}),
    "Inventory", "All Statuses", endCol, -1, {})

(***************************************************************************)
(* Initial states: no spreadsheet yet, or a four-tab workbook.             *)
(***************************************************************************)
NoRun ==
  /\ script = "none"
  /\ pc = "done"
  /\ trace = <<>>
  /\ outcome = "idle"
  /\ answer = <<>>
  /\ authed = FALSE
  /\ printed = {}
  /\ sheet_ids = {}
  /\ purchases_rows = <<>>
  /\ requests = {}
  /\ history = <<>>

InitFresh ==
  /\ sheets = {}
  /\ invHeader = Blank(W)
  /\ inv = [r \in DataRows |-> Blank(W)]
  /\ salesHeader = Blank(Len(SalesHeaders))
  /\ sales = <<>>
  /\ purchases = <<>>
  /\ dashHeader = Blank(Len(DashboardHeaders))
  /\ dashFormula = ""
  /\ validations = {}
  /\ filterViews = {}
  /\ token = {}
  /\ NoRun

\* Data rows of a Purchases tab: Item ID, UPC, Category, Brand, Size, Color,
\* Cost, Date Purchased, Condition, Notes.
PurchaseRows ==
  {<<"P-001", "u1", "Tee", "Nike", "M", "Red", "9", "d1", "New", "n1">>,
   <<"P-002", "u2", "Cap", "Puma", "L", "Blue", "7", "", "", "">>}

PurchasesTabs ==
  {<<>>} \cup UNION {[1..n -> PurchaseRows] : n \in 1..(MaxRow - 1)}

\* The four-tab workbook migrate_to_consolidated is written for.  Its Inventory
\* tab has the nine columns add_inventory_filters expects and may carry that
\* script's filter views.
InitLegacy ==
  /\ sheets = {"Purchases", "Inventory", "Sales", "Shipping Dashboard"}
  /\ invHeader = Pad(LegacyInventoryHeaders, W)
  /\ inv = [r \in DataRows |-> Blank(W)]
  /\ salesHeader = SalesHeaders
  /\ sales = <<>>
  /\ purchases \in PurchasesTabs
  /\ dashHeader = DashboardHeaders
  /\ dashFormula = legacy_query_formula
  /\ validations = {}
  /\ filterViews \in {{}, AddStatusViews({}, 9, 7)}
  /\ token = {}
  /\ NoRun

Init == InitFresh \/ InitLegacy

(***************************************************************************)
(* Runs of the scripts.  A run issues its API calls one per step; a call   *)
(* either succeeds, with the effect written in its action, or raises       *)
(* HttpError and changes nothing.                                          *)
(***************************************************************************)
Idle == outcome # "running"

StartRun(s, first, ans) ==
  /\ Idle
  /\ Len(history) < MaxRuns
  /\ script' = s
  /\ pc' = first
  /\ trace' = <<>>
  /\ outcome' = "running"
  /\ answer' = ans
  /\ authed' = FALSE
  /\ printed' = {}
  /\ sheet_ids' = {}
  /\ purchases_rows' = <<>>
  /\ requests' = {}
  /\ UNCHANGED <<history, token>>

At(s, label) == outcome = "running" /\ script = s /\ pc = label

Call(name) == trace' = Append(trace, name)

Goto(label) == pc' = label /\ UNCHANGED <<outcome, printed, history>>

End(o, msgs) ==
  /\ pc' = "done"
  /\ outcome' = o
  /\ printed' = printed \cup msgs
  /\ history' = Append(history, <<script, o>>)

(***************************************************************************)
(* get_credentials, the same in every script that calls the API.           *)
(***************************************************************************)
AuthScripts ==
  {"create_resale_sheet", "migrate_to_consolidated", "remove_condition_column",
   "add_inventory_filters", "add_item_id_dropdown", "create_inventory_form"}

FirstCall(s) ==
  CASE s = "create_resale_sheet" -> "create_spreadsheet"
    [] s = "create_inventory_form" -> "forms_create"
    [] OTHER -> "get_sheet_ids"

\* SCOPES of each script.
SCOPES(s) ==
  CASE s = "create_resale_sheet" -> {"spreadsheets", "drive.file"}
    [] s = "create_inventory_form" -> {"forms.body", "drive", "spreadsheets"}
    [] OTHER -> {"spreadsheets"}

\* get_credentials returns.  Without token.json the consent flow grants the
\* script's SCOPES and the grant is saved; with token.json the stored grant is
\* loaded (and refreshed when it has expired) under the script's SCOPES, and
\* what it covers stays what was granted when the file was made.
get_credentials ==
  /\ outcome = "running" /\ pc = "get_credentials" /\ script \in AuthScripts
  /\ token' = (IF token = {} THEN SCOPES(script) ELSE token)
  /\ authed' = TRUE
  /\ pc' = FirstCall(script)
  /\ UNCHANGED <<ssVars, script, trace, outcome, answer, printed, sheet_ids,
                 purchases_rows, requests, history>>

\* There is no token.json and credentials.json is missing: exit(1).
get_credentials_exit ==
  /\ outcome = "running" /\ pc = "get_credentials" /\ script \in AuthScripts
  /\ token = {}
  /\ End("exit", {"credentials.json not found"})
  /\ UNCHANGED <<ssVars, script, trace, answer, authed, token, sheet_ids, purchases_rows, requests>>

\* The stored grant has expired and its refresh under SCOPES it does not
\* cover is refused: creds.refresh raises, which is no HttpError.
get_credentials_refresh_error ==
  /\ outcome = "running" /\ pc = "get_credentials" /\ script \in AuthScripts
  /\ token # {}
  /\ ~(SCOPES(script) \subseteq token)
  /\ End("unexpected_error", {"Unexpected error"})
  /\ UNCHANGED <<ssVars, script, trace, answer, authed, token, sheet_ids, purchases_rows, requests>>

\* The statements that are not API calls.
LocalLabels == {"confirm", "get_credentials", "done"}

\* An HttpError that is printed and passed over: the run goes on to its call.
HttpErrorPassedOver ==
  /\ outcome = "running" /\ pc \notin LocalLabels
  /\ Call("HttpError")
  /\ printed' = printed \cup {"Error"}
  /\ UNCHANGED <<pc, outcome, history>>
  /\ UNCHANGED <<ssVars, script, answer, authed, token, sheet_ids, purchases_rows, requests>>

\* The API call the run is at raises HttpError and changes nothing;
\* except HttpError as err: print the error; main returns.  The trace
\* records the failed call as "HttpError".
HttpErrorRaised ==
  /\ outcome = "running" /\ pc \notin LocalLabels
  /\ Call("HttpError")
  /\ End("http_error", {"Error"})
  /\ UNCHANGED <<ssVars, script, answer, authed, token, sheet_ids, purchases_rows, requests>>

(***************************************************************************)
(* create_resale_sheet.py                                                  *)
(***************************************************************************)
create_resale_sheet_main ==
  /\ StartRun("create_resale_sheet", "get_credentials", <<>>)
  /\ UNCHANGED ssVars

create_spreadsheet ==
  /\ At("create_resale_sheet", "create_spreadsheet")
  /\ Call("spreadsheets.create")
  /\ sheets' = {"Inventory", "Sales", "Shipping Dashboard"}
  /\ invHeader' = Blank(W)
  /\ inv' = [r \in DataRows |-> Blank(W)]
  /\ salesHeader' = Blank(Len(SalesHeaders))
  /\ sales' = <<>>
  /\ purchases' = <<>>
  /\ dashHeader' = Blank(Len(DashboardHeaders))
  /\ dashFormula' = ""
  /\ validations' = {}
  /\ filterViews' = {}
  /\ Goto("get_sheet_ids")
  /\ UNCHANGED <<script, answer, authed, token, sheet_ids, purchases_rows, requests>>

create_get_sheet_ids ==
  /\ At("create_resale_sheet", "get_sheet_ids")
  /\ sheets # {}
  /\ Call("spreadsheets.get")
  /\ sheet_ids' = sheets
  /\ Goto("inventory_headers")
  /\ UNCHANGED <<ssVars, script, answer, authed, token, purchases_rows, requests>>

setup_inventory_tab_headers ==
  /\ At("create_resale_sheet", "inventory_headers")
  /\ Call("values.update Inventory!A1:K1")
  /\ invHeader' = UpdateCells(invHeader, 1, InventoryHeaders)
  /\ Goto("inventory_formula_a2")
  /\ UNCHANGED <<sheets, inv, salesHeader, sales, purchases, dashHeader,
                 dashFormula, validations, filterViews>>
  /\ UNCHANGED <<script, answer, authed, token, sheet_ids, purchases_rows, requests>>

setup_inventory_tab_formula_a2 ==
  /\ At("create_resale_sheet", "inventory_formula_a2")
  /\ Call("values.update Inventory!A2")
  /\ inv' = [inv EXCEPT ![2] = UpdateCells(@, 1, <<formula_a2>>)]
  /\ Goto("inventory_formula_i2")
  /\ UNCHANGED <<sheets, invHeader, salesHeader, sales, purchases, dashHeader,
                 dashFormula, validations, filterViews>>
  /\ UNCHANGED <<script, answer, authed, token, sheet_ids, purchases_rows, requests>>

setup_inventory_tab_formula_i2 ==
  /\ At("create_resale_sheet", "inventory_formula_i2")
  /\ Call("values.update Inventory!I2")
  /\ inv' = [inv EXCEPT ![2] = UpdateCells(@, 9, <<formula_i2>>)]
  /\ Goto("sales_headers")
  /\ UNCHANGED <<sheets, invHeader, salesHeader, sales, purchases, dashHeader,
                 dashFormula, validations, filterViews>>
  /\ UNCHANGED <<script, answer, authed, token, sheet_ids, purchases_rows, requests>>

setup_sales_tab ==
  /\ At("create_resale_sheet", "sales_headers")
  /\ Call("values.update Sales!A1:I1")
  /\ salesHeader' = UpdateCells(salesHeader, 1, SalesHeaders)
  /\ Goto("dashboard_headers")
  /\ UNCHANGED <<sheets, invHeader, inv, sales, purchases, dashHeader,
                 dashFormula, validations, filterViews>>
  /\ UNCHANGED <<script, answer, authed, token, sheet_ids, purchases_rows, requests>>

setup_shipping_dashboard_headers ==
  /\ At("create_resale_sheet", "dashboard_headers")
  /\ Call("values.update Shipping Dashboard!A1:J1")
  /\ dashHeader' = UpdateCells(dashHeader, 1, DashboardHeaders)
  /\ Goto("dashboard_formula")
  /\ UNCHANGED <<sheets, invHeader, inv, salesHeader, sales, purchases,
                 dashFormula, validations, filterViews>>
  /\ UNCHANGED <<script, answer, authed, token, sheet_ids, purchases_rows, requests>>

setup_shipping_dashboard_formula ==
  /\ At("create_resale_sheet", "dashboard_formula")
  /\ Call("values.update Shipping Dashboard!A2")
  /\ dashFormula' = query_formula(11)
  /\ Goto("apply_data_validations")
  /\ UNCHANGED <<sheets, invHeader, inv, salesHeader, sales, purchases,
                 dashHeader, validations, filterViews>>
  /\ UNCHANGED <<script, answer, authed, token, sheet_ids, purchases_rows, requests>>

\* The setDataValidation request for Sales column A.
ItemIdRule ==
  [sheet |-> "Sales", col |-> 0, kind |-> "=Inventory!$A$2:$A$1000", strict |-> TRUE]

\* The six setDataValidation requests of apply_data_validations, in order.
DataValidationRequests ==
  <<ListRule("Inventory", 4, "Size"),
    ListRule("Inventory", 9, "Location"),
    ItemIdRule,
    ListRule("Sales", 3, "Sold By"),
    ListRule("Sales", 5, "Platform"),
    ListRule("Sales", 6, "Shipping Status")>>

RECURSIVE ApplyValidationRequests(_, _)
ApplyValidationRequests(vs, reqs) ==
  IF reqs = <<>> THEN vs
  ELSE ApplyValidationRequests(SetDataValidation(vs, Head(reqs)), Tail(reqs))

apply_data_validations ==
  /\ At("create_resale_sheet", "apply_data_validations")
  /\ {"Inventory", "Sales"} \subseteq sheet_ids
  /\ Call("batchUpdate setDataValidation")
  /\ validations' = ApplyValidationRequests(validations, DataValidationRequests)
  /\ Goto("apply_formatting")
  /\ UNCHANGED <<sheets, invHeader, inv, salesHeader, sales, purchases,
                 dashHeader, dashFormula, filterViews>>
  /\ UNCHANGED <<script, answer, authed, token, sheet_ids, purchases_rows, requests>>

\* Header colours, banding and column widths: no cell content changes.
apply_formatting ==
  /\ At("create_resale_sheet", "apply_formatting")
  /\ Call("batchUpdate formatting")
  /\ Goto("create_inventory_filters")
  /\ UNCHANGED <<ssVars, script, answer, authed, token, sheet_ids, purchases_rows, requests>>

create_inventory_filters ==
  /\ At("create_resale_sheet", "create_inventory_filters")
  /\ "Inventory" \in sheet_ids
  /\ Call("batchUpdate addFilterView Inventory")
  /\ filterViews' = AddStatusViews(filterViews, 11, 8)
  /\ Goto("create_shipping_filter")
  /\ UNCHANGED <<sheets, invHeader, inv, salesHeader, sales, purchases,
                 dashHeader, dashFormula, validations>>
  /\ UNCHANGED <<script, answer, authed, token, sheet_ids, purchases_rows, requests>>

create_shipping_filter ==
  /\ At("create_resale_sheet", "create_shipping_filter")
  /\ "Shipping Dashboard" \in sheet_ids
  /\ Call("batchUpdate addFilterView Shipping Dashboard")
  /\ filterViews' = AddFilterView(filterViews, "Shipping Dashboard",
                                  "Outstanding Shipments", 10, 8,
                                  {"delivered", "local pickup (no shipping)"})
  /\ End("success", {"SUCCESS! Your spreadsheet is ready!"})
  /\ UNCHANGED <<sheets, invHeader, inv, salesHeader, sales, purchases,
                 dashHeader, dashFormula, validations>>
  /\ UNCHANGED <<script, answer, authed, token, sheet_ids, purchases_rows, requests>>

(***************************************************************************)
(* The confirmation prompt of migrate_to_consolidated and                  *)
(* remove_condition_column: input(...).strip().lower() in ['yes', 'y'].    *)
(* An answer is the sequence of the characters typed.                      *)
(***************************************************************************)
Answers ==
  {<<" ", "Y", "E", "S", " ">>, <<"y">>, <<"n", "o">>, <<>>, <<"y", "e", "p">>}

IsSpace(ch) == ch \in {" ", "\t", "\n"}

RECURSIVE LStrip(_)
LStrip(str) ==
  IF str # <<>> /\ IsSpace(Head(str)) THEN LStrip(Tail(str)) ELSE str

RECURSIVE RStrip(_)
RStrip(str) ==
  IF str # <<>> /\ IsSpace(str[Len(str)])
  THEN RStrip(SubSeq(str, 1, Len(str) - 1))
  ELSE str

Strip(str) == RStrip(LStrip(str))

LowerChar(ch) ==
  CASE ch = "Y" -> "y" [] ch = "E" -> "e" [] ch = "S" -> "s"
    [] ch = "N" -> "n" [] ch = "O" -> "o" [] ch = "P" -> "p"
    [] OTHER -> ch

Lower(str) == [i \in 1..Len(str) |-> LowerChar(str[i])]

\* A prompt that goes on unless the answer is 'no' or 'n'.
ConfirmedUnlessNo(ans) == Lower(Strip(ans)) \notin {<<"n", "o">>, <<"n">>}

Confirmed(ans) == Lower(Strip(ans)) \in {<<"y", "e", "s">>, <<"y">>}

ConfirmScripts == {"migrate_to_consolidated", "remove_condition_column"}

\* if confirm not in ['yes', 'y']: print the cancellation; return.
confirm_prompt ==
  /\ outcome = "running" /\ pc = "confirm" /\ script \in ConfirmScripts
  /\ IF Confirmed(answer)
     THEN Goto("get_credentials")
     ELSE End("cancelled", {"cancelled"})
  /\ UNCHANGED <<ssVars, script, trace, answer, authed, token, sheet_ids, purchases_rows, requests>>

(***************************************************************************)
(* migrate_to_consolidated.py                                              *)
(***************************************************************************)
formula_j2 ==
  "=IF(A2=\"\", \"\", IF(COUNTIF(Sales!$A:$A, A2) > 0, \"Sold\", \"In Stock\"))"

migrate_main ==
  /\ \E ans \in Answers : StartRun("migrate_to_consolidated", "confirm", ans)
  /\ UNCHANGED ssVars

migrate_get_sheet_ids ==
  /\ At("migrate_to_consolidated", "get_sheet_ids")
  /\ sheets # {}
  /\ Call("spreadsheets.get")
  /\ sheet_ids' = sheets
  /\ IF "Purchases" \notin sheets
     THEN End("returned_false", {"No Purchases tab found", "Migration not needed or failed"})
     ELSE IF "Inventory" \notin sheets
          THEN End("returned_false", {"Inventory tab not found", "Migration not needed or failed"})
          ELSE Goto("read_purchases")
  /\ UNCHANGED <<ssVars, script, answer, authed, token, purchases_rows, requests>>

\* A row as values().get returns it: without its trailing empty cells.
RECURSIVE TrimRow(_)
TrimRow(row) ==
  IF row # <<>> /\ row[Len(row)] = ""
  THEN TrimRow(SubSeq(row, 1, Len(row) - 1))
  ELSE row

\* values().get of the data rows: trailing empty rows are left out, and
\* every row comes without its trailing empty cells.
RECURSIVE ValuesGet(_)
ValuesGet(rows) ==
  IF rows = <<>> THEN <<>>
  ELSE IF TrimRow(rows[Len(rows)]) = <<>>
       THEN ValuesGet(SubSeq(rows, 1, Len(rows) - 1))
       ELSE [k \in 1..Len(rows) |-> TrimRow(rows[k])]

migrate_read_purchases ==
  /\ At("migrate_to_consolidated", "read_purchases")
  /\ Call("values.get Purchases!A2:J1000")
  /\ purchases_rows' = ValuesGet(purchases)
  /\ Goto("write_headers")
  /\ UNCHANGED <<ssVars, script, answer, authed, token, sheet_ids, requests>>

\* A header write followed by the data write whatever was read.
migrate_write_headers_then_data ==
  /\ At("migrate_to_consolidated", "write_headers")
  /\ Call("values.update Inventory!A1:L1")
  /\ invHeader' = UpdateCells(invHeader, 1, new_headers)
  /\ pc' = "write_data"
  /\ UNCHANGED <<outcome, printed, history>>
  /\ UNCHANGED <<sheets, inv, salesHeader, sales, purchases, dashHeader,
                 dashFormula, validations, filterViews>>
  /\ UNCHANGED <<script, answer, authed, token, sheet_ids, purchases_rows, requests>>

migrate_write_headers ==
  /\ At("migrate_to_consolidated", "write_headers")
  /\ Call("values.update Inventory!A1:L1")
  /\ invHeader' = UpdateCells(invHeader, 1, new_headers)
  /\ pc' = (IF purchases_rows # <<>> THEN "write_data" ELSE "formula_a2")
  /\ UNCHANGED <<outcome, printed, history>>
  /\ UNCHANGED <<sheets, inv, salesHeader, sales, purchases, dashHeader,
                 dashFormula, validations, filterViews>>
  /\ UNCHANGED <<script, answer, authed, token, sheet_ids, purchases_rows, requests>>

\* row[0:9] + ['', '', row[9]] of the row padded to 10 cells.
migrated_row(row) ==
  LET padded == Pad(row, IF Len(row) < 10 THEN 10 ELSE Len(row))
  IN  SubSeq(padded, 1, 9) \o <<"", "", padded[10]>>

migrate_write_data ==
  /\ At("migrate_to_consolidated", "write_data")
  /\ Len(purchases_rows) <= MaxRow - 1
  /\ Call("values.update Inventory!A2 rows")
  /\ inv' = [r \in DataRows |->
               IF r - 1 <= Len(purchases_rows)
               THEN UpdateCells(inv[r], 1, migrated_row(purchases_rows[r - 1]))
               ELSE inv[r]]
  /\ Goto("formula_a2")
  /\ UNCHANGED <<sheets, invHeader, salesHeader, sales, purchases, dashHeader,
                 dashFormula, validations, filterViews>>
  /\ UNCHANGED <<script, answer, authed, token, sheet_ids, purchases_rows, requests>>

migrate_formula_a2 ==
  /\ At("migrate_to_consolidated", "formula_a2")
  /\ Call("values.update Inventory!A2")
  /\ inv' = [inv EXCEPT ![2] = UpdateCells(@, 1, <<formula_a2>>)]
  /\ Goto("formula_j2")
  /\ UNCHANGED <<sheets, invHeader, salesHeader, sales, purchases, dashHeader,
                 dashFormula, validations, filterViews>>
  /\ UNCHANGED <<script, answer, authed, token, sheet_ids, purchases_rows, requests>>

migrate_formula_j2 ==
  /\ At("migrate_to_consolidated", "formula_j2")
  /\ Call("values.update Inventory!J2")
  /\ inv' = [inv EXCEPT ![2] = UpdateCells(@, 10, <<formula_j2>>)]
  /\ Goto("dashboard_formula")
  /\ UNCHANGED <<sheets, invHeader, salesHeader, sales, purchases, dashHeader,
                 dashFormula, validations, filterViews>>
  /\ UNCHANGED <<script, answer, authed, token, sheet_ids, purchases_rows, requests>>

\* Step 5 followed at once by the deletion of step 7.
migrate_dashboard_formula_then_delete ==
  /\ At("migrate_to_consolidated", "dashboard_formula")
  /\ "Shipping Dashboard" \in sheets
  /\ Call("values.update Shipping Dashboard!A2")
  /\ dashFormula' = query_formula(12)
  /\ Goto("delete_purchases")
  /\ UNCHANGED <<sheets, invHeader, inv, salesHeader, sales, purchases,
                 dashHeader, validations, filterViews>>
  /\ UNCHANGED <<script, answer, authed, token, sheet_ids, purchases_rows, requests>>

migrate_dashboard_formula ==
  /\ At("migrate_to_consolidated", "dashboard_formula")
  /\ "Shipping Dashboard" \in sheets
  /\ Call("values.update Shipping Dashboard!A2")
  /\ dashFormula' = query_formula(12)
  /\ Goto("validations")
  /\ UNCHANGED <<sheets, invHeader, inv, salesHeader, sales, purchases,
                 dashHeader, validations, filterViews>>
  /\ UNCHANGED <<script, answer, authed, token, sheet_ids, purchases_rows, requests>>

\* The three setDataValidation requests of step 6, in order.
MigrateValidationRequests ==
  <<ListRule("Inventory", 4, "Size"),
    ListRule("Inventory", 8, "Condition"),
    ListRule("Inventory", 10, "Location")>>

migrate_validations ==
  /\ At("migrate_to_consolidated", "validations")
  /\ Call("batchUpdate setDataValidation")
  /\ validations' = ApplyValidationRequests(validations, MigrateValidationRequests)
  /\ Goto("delete_purchases")
  /\ UNCHANGED <<sheets, invHeader, inv, salesHeader, sales, purchases,
                 dashHeader, dashFormula, filterViews>>
  /\ UNCHANGED <<script, answer, authed, token, sheet_ids, purchases_rows, requests>>

\* The last step without its deleteSheet taking effect on the Purchases tab.
migrate_delete_purchases_kept ==
  /\ At("migrate_to_consolidated", "delete_purchases")
  /\ "Purchases" \in sheets
  /\ Call("batchUpdate deleteSheet Purchases")
  /\ End("success", {"Migration complete!"})
  /\ UNCHANGED <<sheets, purchases, invHeader, inv, salesHeader, sales, dashHeader,
                 dashFormula, validations, filterViews>>
  /\ UNCHANGED <<script, answer, authed, token, sheet_ids, purchases_rows, requests>>

migrate_delete_purchases ==
  /\ At("migrate_to_consolidated", "delete_purchases")
  /\ "Purchases" \in sheets
  /\ Call("batchUpdate deleteSheet Purchases")
  /\ sheets' = sheets \ {"Purchases"}
  /\ purchases' = <<>>
  /\ End("success", {"Migration complete!"})
  /\ UNCHANGED <<invHeader, inv, salesHeader, sales, dashHeader, dashFormula,
                 validations, filterViews>>
  /\ UNCHANGED <<script, answer, authed, token, sheet_ids, purchases_rows, requests>>

(***************************************************************************)
(* remove_condition_column.py                                              *)
(***************************************************************************)

\* A row after deleteDimension of the column with 0-based index `idx`: the
\* cells to its right move one column left.
DeleteColumn(row, idx) ==
  [c \in 1..Len(row) |->
     IF c <= idx THEN row[c]
     ELSE IF c < Len(row) THEN row[c + 1] ELSE ""]

\* The rules of the tab's other columns after the deletion.
DeleteColumnRules(vs, sheet, idx) ==
  {v \in vs : v.sheet # sheet \/ v.col < idx}
  \cup {[v EXCEPT !.col = @ - 1] : v \in {u \in vs : u.sheet = sheet /\ u.col > idx}}

\* The tab's filter views after the deletion: a range that held the column
\* is one column narrower, a criterion on the column is gone, a criterion to
\* its right moves one column left.
DeleteColumnView(f, sheet, idx) ==
  IF f.sheet # sheet THEN f
  ELSE [f EXCEPT
          !.endCol = IF @ > idx THEN @ - 1 ELSE @,
          !.critCol = IF @ = idx THEN -1 ELSE IF @ > idx THEN @ - 1 ELSE @,
          !.hidden = IF f.critCol = idx THEN {} ELSE @]

\* The dashboard formula after the deletion: its Inventory!A:<last> range is
\* one column narrower when it held the column.
DeleteColumnFormula(f, idx) ==
  IF \E n \in (idx + 1)..W : f = query_formula(n)
  THEN query_formula((CHOOSE n \in (idx + 1)..W : f = query_formula(n)) - 1)
  ELSE f

remove_main ==
  /\ \E ans \in Answers : StartRun("remove_condition_column", "confirm", ans)
  /\ UNCHANGED ssVars

remove_get_sheet_ids ==
  /\ At("remove_condition_column", "get_sheet_ids")
  /\ sheets # {}
  /\ Call("spreadsheets.get")
  /\ sheet_ids' = sheets
  /\ IF "Inventory" \notin sheets
     THEN End("returned_false", {"Inventory tab not found"})
     ELSE Goto("delete_column")
  /\ UNCHANGED <<ssVars, script, answer, authed, token, purchases_rows, requests>>

\* Step 1: deleteDimension COLUMNS startIndex 8, endIndex 9.
\* A deleteDimension request one column to the right (startIndex 9).
remove_delete_column_J ==
  /\ At("remove_condition_column", "delete_column")
  /\ "Inventory" \in sheets
  /\ Call("batchUpdate deleteDimension Inventory 8")
  /\ invHeader' = DeleteColumn(invHeader, 9)
  /\ inv' = [r \in DataRows |-> DeleteColumn(inv[r], 9)]
  /\ validations' = DeleteColumnRules(validations, "Inventory", 9)
  /\ filterViews' = {DeleteColumnView(f, "Inventory", 9) : f \in filterViews}
  /\ dashFormula' = DeleteColumnFormula(dashFormula, 9)
  /\ Goto("dashboard_formula")
  /\ UNCHANGED <<sheets, salesHeader, sales, purchases, dashHeader>>
  /\ UNCHANGED <<script, answer, authed, token, sheet_ids, purchases_rows, requests>>

remove_delete_column ==
  /\ At("remove_condition_column", "delete_column")
  /\ "Inventory" \in sheets
  /\ Call("batchUpdate deleteDimension Inventory 8")
  /\ invHeader' = DeleteColumn(invHeader, 8)
  /\ inv' = [r \in DataRows |-> DeleteColumn(inv[r], 8)]
  /\ validations' = DeleteColumnRules(validations, "Inventory", 8)
  /\ filterViews' = {DeleteColumnView(f, "Inventory", 8) : f \in filterViews}
  /\ dashFormula' = DeleteColumnFormula(dashFormula, 8)
  /\ Goto("dashboard_formula")
  /\ UNCHANGED <<sheets, salesHeader, sales, purchases, dashHeader>>
  /\ UNCHANGED <<script, answer, authed, token, sheet_ids, purchases_rows, requests>>

remove_dashboard_formula ==
  /\ At("remove_condition_column", "dashboard_formula")
  /\ "Shipping Dashboard" \in sheets
  /\ Call("values.update Shipping Dashboard!A2")
  /\ dashFormula' = query_formula(11)
  /\ Goto("get_filter_views")
  /\ UNCHANGED <<sheets, invHeader, inv, salesHeader, sales, purchases,
                 dashHeader, validations, filterViews>>
  /\ UNCHANGED <<script, answer, authed, token, sheet_ids, purchases_rows, requests>>

StatusViewTitles == {"In Stock", "Sold", "All Statuses"}

\* Step 3: read the filter views; one deleteFilterView request per Inventory
\* view with one of the three titles.
remove_get_filter_views ==
  /\ At("remove_condition_column", "get_filter_views")
  /\ Call("spreadsheets.get filterViews")
  /\ requests' = {f.id : f \in {g \in filterViews :
                                  g.sheet = "Inventory" /\ g.title \in StatusViewTitles}}
  /\ pc' = (IF requests' # {} THEN "delete_filter_views" ELSE "add_filter_views")
  /\ UNCHANGED <<outcome, printed, history>>
  /\ UNCHANGED <<ssVars, script, answer, authed, token, sheet_ids, purchases_rows>>

\* The delete batch built and never executed.
remove_delete_filter_views_unsent ==
  /\ At("remove_condition_column", "delete_filter_views")
  /\ Call("batchUpdate deleteFilterView")
  /\ Goto("add_filter_views")
  /\ UNCHANGED <<sheets, invHeader, inv, salesHeader, sales, purchases,
                 dashHeader, dashFormula, validations, filterViews>>
  /\ UNCHANGED <<script, answer, authed, token, sheet_ids, purchases_rows, requests>>

remove_delete_filter_views ==
  /\ At("remove_condition_column", "delete_filter_views")
  /\ Call("batchUpdate deleteFilterView")
  /\ filterViews' = {f \in filterViews : f.id \notin requests}
  /\ Goto("add_filter_views")
  /\ UNCHANGED <<sheets, invHeader, inv, salesHeader, sales, purchases,
                 dashHeader, dashFormula, validations>>
  /\ UNCHANGED <<script, answer, authed, token, sheet_ids, purchases_rows, requests>>

remove_add_filter_views ==
  /\ At("remove_condition_column", "add_filter_views")
  /\ "Inventory" \in sheets
  /\ Call("batchUpdate addFilterView Inventory")
  /\ filterViews' = AddStatusViews(filterViews, 11, 8)
  /\ End("success", {"Condition column removed successfully!", "I: Status"})
  /\ UNCHANGED <<sheets, invHeader, inv, salesHeader, sales, purchases,
                 dashHeader, dashFormula, validations>>
  /\ UNCHANGED <<script, answer, authed, token, sheet_ids, purchases_rows, requests>>

(***************************************************************************)
(* add_inventory_filters.py                                                *)
(***************************************************************************)
filters_main ==
  /\ StartRun("add_inventory_filters", "get_credentials", <<>>)
  /\ UNCHANGED ssVars

filters_get_sheet_ids ==
  /\ At("add_inventory_filters", "get_sheet_ids")
  /\ sheets # {}
  /\ Call("spreadsheets.get")
  /\ sheet_ids' = sheets
  /\ IF "Inventory" \notin sheets
     THEN End("returned_false", {"'Inventory' tab not found", "Failed to add filters"})
     ELSE Goto("add_inventory_filters")
  /\ UNCHANGED <<ssVars, script, answer, authed, token, purchases_rows, requests>>

\* The views added together with a sort of the tab's data rows (a sortRange
\* request in the same batch): the rows change places.
add_inventory_filters_sorting ==
  /\ At("add_inventory_filters", "add_inventory_filters")
  /\ "Inventory" \in sheets
  /\ Call("batchUpdate addFilterView Inventory")
  /\ filterViews' = AddStatusViews(filterViews, 9, 7)
  /\ inv' = [r \in DataRows |-> inv[MaxRow + 2 - r]]
  /\ End("success", {"Successfully added 3 filter views to Inventory tab!"})
  /\ UNCHANGED <<sheets, invHeader, salesHeader, sales, purchases,
                 dashHeader, dashFormula, validations>>
  /\ UNCHANGED <<script, answer, authed, token, sheet_ids, purchases_rows, requests>>

add_inventory_filters ==
  /\ At("add_inventory_filters", "add_inventory_filters")
  /\ "Inventory" \in sheets
  /\ Call("batchUpdate addFilterView Inventory")
  /\ filterViews' = AddStatusViews(filterViews, 9, 7)
  /\ End("success", {"Successfully added 3 filter views to Inventory tab!"})
  /\ UNCHANGED <<sheets, invHeader, inv, salesHeader, sales, purchases,
                 dashHeader, dashFormula, validations>>
  /\ UNCHANGED <<script, answer, authed, token, sheet_ids, purchases_rows, requests>>

(***************************************************************************)
(* add_item_id_dropdown.py                                                 *)
(***************************************************************************)
dropdown_main ==
  /\ StartRun("add_item_id_dropdown", "get_credentials", <<>>)
  /\ UNCHANGED ssVars

dropdown_get_sheet_ids ==
  /\ At("add_item_id_dropdown", "get_sheet_ids")
  /\ sheets # {}
  /\ Call("spreadsheets.get")
  /\ sheet_ids' = sheets
  /\ IF "Sales" \notin sheets
     THEN End("returned_false", {"'Sales' tab not found", "Failed to add validation"})
     ELSE IF "Inventory" \notin sheets
          THEN End("returned_false", {"'Inventory' tab not found", "Failed to add validation"})
          ELSE Goto("add_item_id_validation")
  /\ UNCHANGED <<ssVars, script, answer, authed, token, purchases_rows, requests>>

\* The request without 'strict': other values are flagged, not rejected.
DropdownItemIdRuleLenient ==
  [sheet |-> "Sales", col |-> 0, kind |-> "=Inventory!$A$2:$A$1000", strict |-> FALSE]

\* The setDataValidation request of add_item_id_validation.
DropdownItemIdRule ==
  [sheet |-> "Sales", col |-> 0, kind |-> "=Inventory!$A$2:$A$1000", strict |-> TRUE]

add_item_id_validation ==
  /\ At("add_item_id_dropdown", "add_item_id_validation")
  /\ "Sales" \in sheets
  /\ Call("batchUpdate setDataValidation")
  /\ validations' = SetDataValidation(validations, DropdownItemIdRule)
  /\ End("success", {"Successfully added Item ID dropdown!"})
  /\ UNCHANGED <<sheets, invHeader, inv, salesHeader, sales, purchases,
                 dashHeader, dashFormula, filterViews>>
  /\ UNCHANGED <<script, answer, authed, token, sheet_ids, purchases_rows, requests>>

(***************************************************************************)
(* create_inventory_form.py: two Forms API calls; the spreadsheet is not   *)
(* touched.                                                                *)
(***************************************************************************)
form_main ==
  /\ StartRun("create_inventory_form", "get_credentials", <<>>)
  /\ UNCHANGED ssVars

forms_create ==
  /\ At("create_inventory_form", "forms_create")
  /\ "forms.body" \in token
  /\ Call("forms.create")
  /\ Goto("forms_batchUpdate")
  /\ UNCHANGED <<ssVars, script, answer, authed, token, sheet_ids, purchases_rows, requests>>

forms_batchUpdate ==
  /\ At("create_inventory_form", "forms_batchUpdate")
  /\ "forms.body" \in token
  /\ Call("forms.batchUpdate")
  /\ End("success", {"SUCCESS! Form created!"})
  /\ UNCHANGED <<ssVars, script, answer, authed, token, sheet_ids, purchases_rows, requests>>

(***************************************************************************)
(* add_essentials_hoodie.py: prints the manual steps; get_sheets_service   *)
(* is never called.                                                        *)
(***************************************************************************)
add_essentials_hoodie_main ==
  /\ Idle
  /\ Len(history) < MaxRuns
  /\ script' = "add_essentials_hoodie"
  /\ pc' = "done"
  /\ trace' = <<>>
  /\ outcome' = "printed"
  /\ answer' = <<>>
  /\ authed' = FALSE
  /\ printed' = {"MANUAL STEPS TO ADD THIS ITEM"}
  /\ sheet_ids' = {}
  /\ purchases_rows' = <<>>
  /\ requests' = {}
  /\ history' = Append(history, <<"add_essentials_hoodie", "printed">>)
  /\ UNCHANGED <<ssVars, token>>

(***************************************************************************)
(* The operator, between runs: adds an item to the Inventory tab by        *)
(* filling the input columns of the next unused row, changes the colour    *)
(* of an item, types an Item ID where column A is empty, records a sale    *)
(* in the next row of the Sales tab.                                       *)
(***************************************************************************)
\* The operator works in the workbook once a script has told them it is ready.
Ready == Idle /\ history # <<>> /\ history[Len(history)][2] = "success"

InputNames ==
  {"UPC", "Category", "Brand", "Size", "Color", "Cost", "Date Purchased",
   "Condition", "Location", "Notes"}

Colors == {"", "Red"}

Item(color) ==
  "UPC" :> "u1" @@ "Category" :> "Tee" @@ "Brand" :> "Nike" @@ "Size" :> "M"
  @@ "Color" :> color @@ "Cost" :> "9" @@ "Date Purchased" :> "d1"
  @@ "Condition" :> "New" @@ "Location" :> "Zach's garage" @@ "Notes" :> "n1"

InventoryItems == {Item(c) : c \in Colors}

SaleInput == <<"", "20", "s1", "Zach", "Bea", "eBay", "shipped", "1Z9", "sn">>

\* An Item ID that no Inventory row shows.
ForeignId == "Hat-Puma-L-Tan-9"

RowUsed(r) == \E c \in 1..W : invHeader[c] \in InputNames /\ inv[r][c] # ""

\* The operator types the item under the headers that name its fields.
Fill(row, item) ==
  [c \in 1..W |-> IF invHeader[c] \in DOMAIN item THEN item[invHeader[c]] ELSE row[c]]

AddInventoryRow ==
  /\ Ready
  /\ "Inventory" \in sheets
  /\ ColumnOf(invHeader, "Category") # 0
  /\ \E r \in DataRows, item \in InventoryItems :
       /\ ~RowUsed(r)
       /\ \A q \in DataRows : q < r => RowUsed(q)
       /\ inv' = [inv EXCEPT ![r] = Fill(@, item)]
  /\ UNCHANGED <<sheets, invHeader, salesHeader, sales, purchases, dashHeader,
                 dashFormula, validations, filterViews, runVars, token>>

EditInventoryRow ==
  /\ Ready
  /\ "Inventory" \in sheets
  /\ ColumnOf(invHeader, "Color") # 0
  /\ \E r \in DataRows, color \in Colors :
       /\ RowUsed(r)
       /\ inv[r][ColumnOf(invHeader, "Color")] # color
       /\ inv' = [inv EXCEPT ![r][ColumnOf(invHeader, "Color")] = color]
  /\ UNCHANGED <<sheets, invHeader, salesHeader, sales, purchases, dashHeader,
                 dashFormula, validations, filterViews, runVars, token>>

\* The Item ID the operator gives by hand to the item in row r; each item
\* needs a unique one.
ManualItemId(r) == "ESS-HOODIE-XL-OATMEAL-00" \o ToString(r)

\* The operator types an Item ID in column A of a row that holds an item and
\* has nothing in column A.
TypeItemId ==
  /\ Ready
  /\ "Inventory" \in sheets
  /\ ColumnOf(invHeader, "Item ID") = 1
  /\ \E r \in DataRows :
       /\ RowUsed(r)
       /\ inv[r][1] = ""
       /\ inv' = [inv EXCEPT ![r][1] = ManualItemId(r)]
  /\ UNCHANGED <<sheets, invHeader, salesHeader, sales, purchases, dashHeader,
                 dashFormula, validations, filterViews, runVars, token>>

\* The Item IDs the Sales tab accepts: with the strict ONE_OF_RANGE rule on
\* column A only what Inventory!A2:A1000 shows, otherwise any text.
SaleIdChoices ==
  {""} \cup {InvValue(r, 1) : r \in DataRows}
       \cup (IF ItemIdRule \in validations THEN {} ELSE {ForeignId})

RecordSale ==
  /\ Ready
  /\ "Sales" \in sheets
  /\ "Inventory" \in sheets
  /\ Len(sales) < MaxSales
  /\ \E id \in SaleIdChoices :
       sales' = Append(sales, UpdateCells(SaleInput, 1, <<id>>))
  /\ UNCHANGED <<sheets, invHeader, inv, salesHeader, purchases, dashHeader,
                 dashFormula, validations, filterViews, runVars, token>>

\* The steps of create_resale_sheet.py.
CreateNext ==
  \/ create_resale_sheet_main
  \/ create_spreadsheet
  \/ create_get_sheet_ids
  \/ setup_inventory_tab_headers
  \/ setup_inventory_tab_formula_a2
  \/ setup_inventory_tab_formula_i2
  \/ setup_sales_tab
  \/ setup_shipping_dashboard_headers
  \/ setup_shipping_dashboard_formula
  \/ apply_data_validations
  \/ apply_formatting
  \/ create_inventory_filters
  \/ create_shipping_filter

\* The steps of migrate_to_consolidated.py.
MigrateNext ==
  \/ migrate_main
  \/ migrate_get_sheet_ids
  \/ migrate_read_purchases
  \/ migrate_write_headers
  \/ migrate_write_data
  \/ migrate_formula_a2
  \/ migrate_formula_j2
  \/ migrate_dashboard_formula
  \/ migrate_validations
  \/ migrate_delete_purchases

\* The steps of remove_condition_column.py.
RemoveNext ==
  \/ remove_main
  \/ remove_get_sheet_ids
  \/ remove_delete_column
  \/ remove_dashboard_formula
  \/ remove_get_filter_views
  \/ remove_delete_filter_views
  \/ remove_add_filter_views

\* The steps of the other scripts.
OtherNext ==
  \/ filters_main
  \/ filters_get_sheet_ids
  \/ add_inventory_filters
  \/ dropdown_main
  \/ dropdown_get_sheet_ids
  \/ add_item_id_validation
  \/ form_main
  \/ forms_create
  \/ forms_batchUpdate
  \/ add_essentials_hoodie_main

\* The steps every script shares.
CommonNext ==
  \/ get_credentials
  \/ get_credentials_exit
  \/ get_credentials_refresh_error
  \/ confirm_prompt
  \/ HttpErrorRaised

OperatorNext ==
  \/ AddInventoryRow
  \/ EditInventoryRow
  \/ TypeItemId
  \/ RecordSale

\* Runs of the scripts, one after another, on a new or a four-tab workbook.
Next ==
  \/ CommonNext
  \/ CreateNext
  \/ MigrateNext
  \/ RemoveNext
  \/ OtherNext

Spec == Init /\ [][Next]_vars

\* A workbook made by create_resale_sheet and the operator working in it.
SheetNext ==
  \/ get_credentials
  \/ get_credentials_exit
  \/ HttpErrorRaised
  \/ CreateNext
  \/ OperatorNext

SpecSheet == InitFresh /\ [][SheetNext]_vars

(***************************************************************************)
(* Claims about a workbook made by create_resale_sheet (SpecSheet).        *)
(***************************************************************************)

\* The last run made the workbook and ended with the success message; no
\* other script has run on it since.
SetUpByCreate ==
  /\ Idle
  /\ history # <<>>
  /\ history[Len(history)] = <<"create_resale_sheet", "success">>

\* The value an Inventory data row shows under the header `h`.
Shown(r, h) == InvValue(r, ColumnOf(invHeader, h))

\* Category-Brand-Size-Color-<row number> of a data row, "" when one of the
\* four is empty.
ExpectedItemId(r) ==
  IF /\ Shown(r, "Category") # "" /\ Shown(r, "Brand") # ""
     /\ Shown(r, "Size") # "" /\ Shown(r, "Color") # ""
  THEN Shown(r, "Category") \o "-" \o Shown(r, "Brand") \o "-" \o Shown(r, "Size")
       \o "-" \o Shown(r, "Color") \o "-" \o ToString(r)
  ELSE ""

\* C1: in a workbook set up by create_resale_sheet, every Inventory data row
\* (row 2 and every later row) shows Item ID = Category-Brand-Size-Color-<row>
\* when the four are non-empty, and an empty Item ID otherwise.
C1_ItemIdOnEveryRow ==
  SetUpByCreate => \A r \in DataRows : Shown(r, "Item ID") = ExpectedItemId(r)

\* The Status the claim gives an Inventory data row.
ExpectedStatus(r) ==
  IF Shown(r, "Item ID") = "" THEN ""
  ELSE IF \E k \in 1..Len(sales) : sales[k][ColumnOf(salesHeader, "Item ID")] = Shown(r, "Item ID")
       THEN "Sold"
       ELSE "In Stock"

StatusMatches == \A r \in DataRows : Shown(r, "Status") = ExpectedStatus(r)

\* The step appends a Sales row with the Item ID that data row r shows.
SaleRecordedOf(r) ==
  /\ Len(sales') = Len(sales) + 1
  /\ sales'[Len(sales')][1] = Shown(r, "Item ID")
  /\ Shown(r, "Item ID") # ""

\* C2: in a workbook set up by create_resale_sheet, after any additions and
\* sales every Inventory data row shows Status "" when its Item ID is empty,
\* "Sold" when its Item ID occurs in Sales column A and "In Stock" otherwise;
\* the step that records the sale of an In Stock item leaves it Sold.
C2_StatusFollowsSales ==
  [][/\ SetUpByCreate' => StatusMatches'
     /\ \A r \in DataRows :
          (SetUpByCreate /\ SaleRecordedOf(r) /\ Shown(r, "Status") = "In Stock")
            => Shown(r, "Status")' = "Sold"]_vars

\* The Sales rows with a non-empty Item ID, in sheet order.
SalesWithId == SelectSeq(sales, LAMBDA row : row[ColumnOf(salesHeader, "Item ID")] # "")

InventoryFields == {"Category", "Brand", "Size", "Color"}

\* What the claim puts under dashboard header `h` for the Sales row `row`.
ExpectedDashboardCell(row, h) ==
  IF h \in InventoryFields
  THEN IF \E r \in DataRows : Shown(r, "Item ID") = row[1]
       THEN Shown(CHOOSE r \in DataRows : Shown(r, "Item ID") = row[1], h)
       ELSE ""
  ELSE row[ColumnOf(salesHeader, h)]

LastRun(s, o) ==
  Idle /\ history # <<>> /\ history[Len(history)] = <<s, o>>

\* C4: when migrate_spreadsheet returns True, every data row of the Purchases
\* tab is in the Inventory tab at its row number: Inventory A-I show the
\* row's Purchases A-I and Inventory L its Purchases J.
C4_PurchasesRowsKept ==
  [][(script = "migrate_to_consolidated" /\ outcome' = "success" /\ outcome = "running")
       => \A k \in 1..Len(purchases) :
            /\ \A c \in 1..9 : InvValue(k + 1, c)' = purchases[k][c]
            /\ InvValue(k + 1, 12)' = purchases[k][10]]_vars

\* The answers of the model that are 'yes' or 'y' once trimmed and lowered.
YesAnswers == {<<" ", "Y", "E", "S", " ">>, <<"y">>}

\* C5: migrate_to_consolidated and remove_condition_column authenticate and
\* issue API calls only after the answer 'yes' or 'y' (trimmed, any case); a
\* run with another answer ends cancelled, not authenticated, with no call.
C5_NothingWithoutConfirmation ==
  script \in ConfirmScripts =>
    /\ (authed \/ trace # <<>>) => answer \in YesAnswers
    /\ (answer \notin YesAnswers /\ pc # "confirm")
         => outcome = "cancelled" /\ ~authed /\ trace = <<>>

\* A migration was declined with "yep"; the removal confirmed with " YES "
\* has issued calls.
C5_Witness ==
  /\ history = <<<<"migrate_to_consolidated", "cancelled">>>>
  /\ script = "remove_condition_column"
  /\ answer = <<" ", "Y", "E", "S", " ">>
  /\ authed
  /\ Len(trace) >= 2

SuccessMessages ==
  {"SUCCESS! Your spreadsheet is ready!", "Migration complete!",
   "Condition column removed successfully!",
   "Successfully added 3 filter views to Inventory tab!",
   "Successfully added Item ID dropdown!", "SUCCESS! Form created!"}

\* C6: a call that raises HttpError is the last call of its run (no call
\* follows it, it is not retried), the run has ended with the error printed,
\* and a run that prints its success message had no failed call.
C6_HttpErrorEndsRun ==
  /\ \A i \in 1..Len(trace) :
       trace[i] = "HttpError" =>
         /\ i = Len(trace)
         /\ outcome = "http_error"
         /\ "Error" \in printed
         /\ printed \cap SuccessMessages = {}
  /\ printed \cap SuccessMessages # {} => outcome = "success"

\* create_resale_sheet failed at its validations batch, after eight calls.
C6_Witness ==
  /\ script = "create_resale_sheet"
  /\ outcome = "http_error"
  /\ Len(trace) = 9
  /\ trace[9] = "HttpError"
  /\ validations = {}

\* The calls of a run that were answered, without the one that raised.
Calls(tr) ==
  IF tr # <<>> /\ tr[Len(tr)] = "HttpError" THEN SubSeq(tr, 1, Len(tr) - 1) ELSE tr

IsPrefix(a, b) == Len(a) <= Len(b) /\ SubSeq(b, 1, Len(a)) = a

\* The full call list of each script, in source order.
FullCalls(s) ==
  CASE s = "create_resale_sheet" ->
         <<"spreadsheets.create", "spreadsheets.get",
           "values.update Inventory!A1:K1", "values.update Inventory!A2",
           "values.update Inventory!I2", "values.update Sales!A1:I1",
           "values.update Shipping Dashboard!A1:J1",
           "values.update Shipping Dashboard!A2",
           "batchUpdate setDataValidation", "batchUpdate formatting",
           "batchUpdate addFilterView Inventory",
           "batchUpdate addFilterView Shipping Dashboard">>
    [] s = "migrate_to_consolidated" ->
         <<"spreadsheets.get", "values.get Purchases!A2:J1000",
           "values.update Inventory!A1:L1", "values.update Inventory!A2 rows",
           "values.update Inventory!A2", "values.update Inventory!J2",
           "values.update Shipping Dashboard!A2",
           "batchUpdate setDataValidation", "batchUpdate deleteSheet Purchases">>
    [] s = "remove_condition_column" ->
         <<"spreadsheets.get", "batchUpdate deleteDimension Inventory 8",
           "values.update Shipping Dashboard!A2", "spreadsheets.get filterViews",
           "batchUpdate deleteFilterView", "batchUpdate addFilterView Inventory">>
    [] s = "add_inventory_filters" ->
         <<"spreadsheets.get", "batchUpdate addFilterView Inventory">>
    [] s = "add_item_id_dropdown" ->
         <<"spreadsheets.get", "batchUpdate setDataValidation">>
    [] s = "create_inventory_form" -> <<"forms.create", "forms.batchUpdate">>
    [] OTHER -> <<>>

\* C7 as stated: a run authenticates before its first call, and its call
\* trace is a prefix of the script's one full call list whatever the
\* spreadsheet holds.
C7_TraceIsPrefixOfFullList ==
  /\ trace # <<>> => authed
  /\ IsPrefix(Calls(trace), FullCalls(script))

Without(list, call) == SelectSeq(list, LAMBDA x : x # call)

\* The Purchases tab of the run's spreadsheet has (had, once deleted) data rows.
PurchasesHasRows ==
  IF "Purchases" \in sheets THEN ValuesGet(purchases) # <<>> ELSE purchases_rows # <<>>

\* The call list of the current run: the full list without the call the
\* spreadsheet's contents make the script skip.
RunCalls ==
  CASE script = "migrate_to_consolidated" /\ ~PurchasesHasRows ->
         Without(FullCalls(script), "values.update Inventory!A2 rows")
    [] script = "remove_condition_column" /\ requests = {} ->
         Without(FullCalls(script), "batchUpdate deleteFilterView")
    [] OTHER -> FullCalls(script)

\* C7 amended: a run authenticates before its first call and its trace is a
\* prefix of the script's full call list, in which migrate_to_consolidated
\* leaves the data write out exactly when Purchases has no data rows and
\* remove_condition_column leaves the deleteFilterView batch out exactly when
\* Inventory has no In Stock, Sold or All Statuses view.
C7_TraceIsPrefixOfRunList ==
  /\ trace # <<>> => authed
  /\ IsPrefix(Calls(trace), RunCalls)
  /\ (script = "remove_condition_column"
      /\ Len(Calls(trace)) = 4 /\ outcome = "running")
       => (requests = {}) =
            ({f \in filterViews : f.sheet = "Inventory" /\ f.title \in StatusViewTitles} = {})

\* A migration of an empty Purchases tab ran to its end without the data write.
C7_Witness ==
  /\ script = "migrate_to_consolidated"
  /\ outcome = "success"
  /\ purchases_rows = <<>>
  /\ Len(trace) = 8
  /\ trace[4] = "values.update Inventory!A2"

\* C8: after migrate_spreadsheet and then remove_condition_column succeeded,
\* the Inventory tab has create_resale_sheet's layout: headers A-K, the Status
\* formula under Status, the Size and Location dropdowns under Size and
\* Location.
C8_MigratedLayoutIsCreatedLayout ==
  (/\ Idle
   /\ history = <<<<"migrate_to_consolidated", "success">>,
                  <<"remove_condition_column", "success">>>>)
  => /\ SubSeq(invHeader, 1, Len(InventoryHeaders)) = InventoryHeaders
     /\ inv[2][ColumnOf(invHeader, "Status")] = formula_i2
     /\ \A v \in validations :
          v.sheet = "Inventory" =>
            /\ v.kind \in {"Size", "Location"}
            /\ invHeader[v.col + 1] = v.kind
     /\ \A kind \in {"Size", "Location"} :
          \E v \in validations : v.sheet = "Inventory" /\ v.kind = kind

\* Both runs succeeded on a workbook whose Purchases tab held two rows.
C8_Witness ==
  /\ Idle
  /\ history = <<<<"migrate_to_consolidated", "success">>,
                 <<"remove_condition_column", "success">>>>
  /\ inv[3][2] = "u2"
  /\ invHeader[9] = "Status"

\* C9: a step of remove_condition_column removes no Inventory column other
\* than Condition: every other headed column is still there with its cells.
C9_OnlyConditionRemoved ==
  [][(script = "remove_condition_column" /\ outcome = "running")
       => \A c \in 1..W :
            invHeader[c] \notin {"", "Condition"}
              => \E d \in 1..W :
                   /\ invHeader'[d] = invHeader[c]
                   /\ \A r \in DataRows : inv'[r][d] = inv[r][c]]_vars

\* The widest headed Inventory column (0 when there is no header).
HeadedWidth ==
  IF \E c \in 1..W : invHeader[c] # ""
  THEN CHOOSE c \in 1..W : invHeader[c] # "" /\ \A d \in (c + 1)..W : invHeader[d] = ""
  ELSE 0

\* C10: after add_inventory_filters succeeded on an Inventory tab with a
\* Status column, the In Stock and Sold views of the tab have their criterion
\* on the column headed Status and span all Inventory columns, like
\* create_inventory_filters' views.
C10_FiltersOnStatusColumn ==
  (LastRun("add_inventory_filters", "success") /\ ColumnOf(invHeader, "Status") # 0) =>
    \A f \in filterViews :
      (f.sheet = "Inventory" /\ f.title \in {"In Stock", "Sold"})
        => /\ f.critCol + 1 = ColumnOf(invHeader, "Status")
           /\ f.endCol >= HeadedWidth

(***************************************************************************)
(* Claims about the Item ID dropdown of the Sales tab (SpecSales): a       *)
(* workbook made by create_resale_sheet, runs of add_item_id_dropdown on   *)
(* it, and the operator adding items and recording sales in it.            *)
(***************************************************************************)
SalesNext ==
  \/ get_credentials
  \/ get_credentials_exit
  \/ HttpErrorRaised
  \/ CreateNext
  \/ AddInventoryRow
  \/ RecordSale
  \/ dropdown_main
  \/ dropdown_get_sheet_ids
  \/ add_item_id_validation

SpecSales == InitFresh /\ [][SalesNext]_vars

\* The rules a workbook has when apply_data_validations has run on it.
CreatedValidations == ApplyValidationRequests({}, DataValidationRequests)

\* The rules on column A of the Sales tab.
SalesItemIdRules == {v \in validations : v.sheet = "Sales" /\ v.col = 0}

\* C11: the rule on Sales column A is strict and refers to
\* Inventory!$A$2:$A$1000, so a sale recorded under it has an Item ID that
\* Inventory column A shows (or none); add_item_id_validation issues the
\* request apply_data_validations issues for that column, and a run of
\* add_item_id_dropdown on a workbook with create_resale_sheet's rules leaves
\* the rules as they are.
C11_ItemIdDropdownIdempotent ==
  [][/\ DropdownItemIdRule = ItemIdRule
     /\ \A v \in SalesItemIdRules' :
          v.strict /\ v.kind = "=Inventory!$A$2:$A$1000"
     /\ (SalesItemIdRules # {} /\ Len(sales') = Len(sales) + 1)
          => sales'[Len(sales')][1] \in {""} \cup {InvValue(r, 1) : r \in DataRows}
     /\ (script' = "add_item_id_dropdown" /\ validations = CreatedValidations)
          => validations' = validations]_vars

\* add_item_id_dropdown succeeded on a workbook made by create_resale_sheet,
\* and a sale of the item in row 2 was recorded under the rule.
C11_Witness ==
  /\ history = <<<<"create_resale_sheet", "success">>,
                 <<"add_item_id_dropdown", "success">>>>
  /\ validations = CreatedValidations
  /\ Len(sales) = 1
  /\ sales[1][1] = "Tee-Nike-M-Red-2"

(***************************************************************************)
(* Further claims about the runs of the scripts (C13, C14: Spec; C12, C15: *)
(* SpecViews, defined below).                                              *)
(***************************************************************************)
\* migrate_spreadsheet has returned True for the workbook at hand: a run of
\* migrate_to_consolidated succeeded and no new workbook was made since.
Migrated ==
  \E i \in 1..Len(history) :
    /\ history[i] = <<"migrate_to_consolidated", "success">>
    /\ \A j \in (i + 1)..Len(history) : history[j][1] # "create_resale_sheet"

\* C12: once migrate_spreadsheet has returned True, no step of a later run of
\* migrate_to_consolidated changes the workbook; the run issues no call but
\* spreadsheets.get, and when that call is answered the run finds no
\* Purchases tab and returns False.
C12_MigrationIdempotent ==
  [][(Migrated /\ script' = "migrate_to_consolidated")
       => /\ UNCHANGED ssVars
          /\ \A k \in 1..Len(trace') : trace'[k] \in {"spreadsheets.get", "HttpError"}
          /\ outcome' # "success"
          /\ (outcome' # "running" /\ trace' = <<"spreadsheets.get">>)
               => /\ outcome' = "returned_false"
                  /\ "No Purchases tab found" \in printed']_vars

\* A second run on the migrated workbook returned False.
C12_Witness ==
  /\ history = <<<<"migrate_to_consolidated", "success">>,
                 <<"migrate_to_consolidated", "returned_false">>>>
  /\ trace = <<"spreadsheets.get">>
  /\ "Purchases" \notin sheets
  /\ invHeader = new_headers

\* The scopes a stored grant covers include `scope` (drive includes what
\* drive.file allows).
Authorizes(granted, scope) ==
  scope \in granted \/ (scope = "drive.file" /\ "drive" \in granted)

\* C13: the credentials get_credentials has returned to the running script
\* are authorized for every scope of the script's SCOPES, whichever script
\* made token.json.
C13_CredentialsCoverScopes ==
  authed => \A scope \in SCOPES(script) : Authorizes(token, scope)

\* The step is the batchUpdate of create_inventory_filters,
\* create_shipping_filter or add_inventory_filters.
FilterViewBatch ==
  /\ script \in {"create_resale_sheet", "add_inventory_filters"}
  /\ Len(trace') = Len(trace) + 1
  /\ trace'[Len(trace')] \in {"batchUpdate addFilterView Inventory",
                              "batchUpdate addFilterView Shipping Dashboard"}

\* C14: the filter-view batches of create_inventory_filters,
\* create_shipping_filter and add_inventory_filters only add filter views:
\* every tab, header, cell, formula and data-validation rule is as before, and
\* so is every filter view that was there.
C14_FilterViewsNonDestructive ==
  [][FilterViewBatch
       => /\ UNCHANGED <<sheets, invHeader, inv, salesHeader, sales, purchases,
                         dashHeader, dashFormula, validations>>
          /\ filterViews \subseteq filterViews'
          /\ filterViews' # filterViews]_vars

\* add_inventory_filters added its views to a migrated Inventory tab that
\* holds two items.
C14_Witness ==
  /\ history = <<<<"migrate_to_consolidated", "success">>,
                 <<"add_inventory_filters", "success">>>>
  /\ inv[2][2] = "u1"
  /\ inv[3][2] = "u2"
  /\ \E f \in filterViews : f.sheet = "Inventory" /\ f.title = "Sold" /\ f.endCol = 9

\* The writes of migrate_spreadsheet that come before its deleteSheet.
MigrationWrites ==
  {"values.update Inventory!A1:L1", "values.update Inventory!A2 rows",
   "values.update Inventory!A2", "values.update Inventory!J2",
   "values.update Shipping Dashboard!A2", "batchUpdate setDataValidation"}

\* The deleteSheet call, when it is in the trace, is the last call and every
\* call of `writes` was answered before it.
DeleteSheetAfter(writes) ==
  \A k \in 1..Len(trace) :
    trace[k] = "batchUpdate deleteSheet Purchases"
      => /\ k = Len(trace)
         /\ \A w \in writes : \E j \in 1..(k - 1) : trace[j] = w

\* A run of migrate_to_consolidated that has not succeeded leaves the
\* Purchases tab and its rows as they are.
PurchasesKeptUnlessSuccess ==
  (script = "migrate_to_consolidated" /\ script' = script /\ outcome' # "success")
    => /\ ("Purchases" \in sheets) = ("Purchases" \in sheets')
       /\ purchases' = purchases

\* C15 as stated: deleteSheet is the last call of migrate_spreadsheet, issued
\* only after the header write, the data write, both formula writes, the
\* dashboard formula write and the validations batch succeeded; a run that
\* fails earlier leaves the Purchases tab and its rows.
C15_DeleteSheetAfterAllWrites ==
  [][/\ script' = "migrate_to_consolidated" => DeleteSheetAfter(MigrationWrites)'
     /\ PurchasesKeptUnlessSuccess]_vars

\* C15 amended: the same, with the data write among the calls that come
\* before deleteSheet only when the Purchases tab has data rows.
C15_DeleteSheetAfterWritesOfRun ==
  [][/\ script' = "migrate_to_consolidated"
          => DeleteSheetAfter(IF PurchasesHasRows
                              THEN MigrationWrites
                              ELSE MigrationWrites \ {"values.update Inventory!A2 rows"})'
     /\ PurchasesKeptUnlessSuccess]_vars

\* The validations batch of a migration with two Purchases rows failed: the
\* rows are still in the Purchases tab.
C15_Witness ==
  /\ script = "migrate_to_consolidated"
  /\ outcome = "http_error"
  /\ Len(trace) = 8
  /\ trace[7] = "values.update Shipping Dashboard!A2"
  /\ "Purchases" \in sheets
  /\ Len(purchases) = 2

(***************************************************************************)
(* SpecViews: a four-tab workbook in which the operator has saved filter   *)
(* views of their own, and runs of migrate_to_consolidated,                *)
(* add_inventory_filters and remove_condition_column on it.                *)
(***************************************************************************)
\* Filter views the operator saved by hand: one on the Inventory tab over its
\* columns A-I, one on the Sales tab.
OperatorViews ==
  {[id |-> 7, sheet |-> "Inventory", title |-> "Nike only", endCol |-> 9,
    critCol |-> 3, hidden |-> {"Puma"}],
   [id |-> 8, sheet |-> "Sales", title |-> "eBay sales", endCol |-> 9,
    critCol |-> 5, hidden |-> {"Poshmark"}]}

InitViews ==
  /\ sheets = {"Purchases", "Inventory", "Sales", "Shipping Dashboard"}
  /\ invHeader = Pad(LegacyInventoryHeaders, W)
  /\ inv = [r \in DataRows |-> Blank(W)]
  /\ salesHeader = SalesHeaders
  /\ sales = <<>>
  /\ purchases \in PurchasesTabs
  /\ dashHeader = DashboardHeaders
  /\ dashFormula = legacy_query_formula
  /\ validations = {}
  /\ filterViews \in {OperatorViews, AddStatusViews(OperatorViews, 9, 7)}
  /\ token = {}
  /\ NoRun

ViewsNext ==
  \/ get_credentials
  \/ get_credentials_exit
  \/ confirm_prompt
  \/ HttpErrorRaised
  \/ MigrateNext
  \/ RemoveNext
  \/ filters_main
  \/ filters_get_sheet_ids
  \/ add_inventory_filters

SpecViews == InitViews /\ [][ViewsNext]_vars

\* The Inventory views with the title t.
InventoryViews(t) == {f \in filterViews : f.sheet = "Inventory" /\ f.title = t}

\* One view of each of the three titles, over A-K, the criterion of In Stock
\* and Sold on column index 8.
OneViewOfEachTitle ==
  \A t \in {"In Stock", "Sold", "All Statuses"} :
    /\ Cardinality(InventoryViews(t)) = 1
    /\ \A f \in InventoryViews(t) :
         /\ f.endCol = 11
         /\ t # "All Statuses" => f.critCol = 8

\* The views the run is not about: other titles, other tabs.
OtherViews ==
  {f \in filterViews :
     f.sheet # "Inventory" \/ f.title \notin {"In Stock", "Sold", "All Statuses"}}

C17_RemoveAllOrNothing ==
  (history = <<<<"migrate_to_consolidated", "success">>,
               <<"remove_condition_column", "http_error">>>>)
    => /\ ColumnOf(invHeader, "Condition") # 0
       /\ \A id \in requests :
            \E f \in filterViews :
              f.id = id /\ f.sheet = "Inventory" /\ f.title \in StatusViewTitles
====
